---- MODULE Spec2Model ----
(***************************************************************************)
(* Contract lifecycle of the rental-contract service: the generation /     *)
(* submission pipeline (views.generate_contract, views.sign_contract,      *)
(* views.fetch_signing_url), the DocuSign webhook                          *)
(* (views.docusign_webhook) and the record API (views.ContractViewSet),    *)
(* over the stored Contract rows (models.Contract).                        *)
(*                                                                         *)
(* Requests run concurrently (one per HTTP request); a request is atomic   *)
(* between two accesses to the record store, so every action below is one  *)
(* stretch of a handler that contains at most one store access.            *)
(***************************************************************************)
EXTENDS Integers, Sequences, FiniteSets, TLC

\* ------------------------------------------------------------------ bounds
MaxRuns == 1            \* generate_contract requests
MaxHooks == 2           \* docusign_webhook requests
MaxEventTime == 1       \* distinct statusChangedDateTime values an event may carry
MaxApiCalls == 1        \* writing requests to the record API (ContractViewSet)
MaxEquipment == 2       \* identifiers in an equipmentId list, and distinct identifiers

Runs == 1..MaxRuns
Hooks == 1..MaxHooks
Patches == 1..MaxApiCalls

\* ------------------------------------------------------------- the schema
\* None for ids and timestamps (falsy in Python, like None and '')
None == 0

\* the columns models.Contract declares that the handlers touch
ContractFields == {"status", "total_value", "contract_text"}

\* the attributes views.py sets on a Contract instance (views.py:319, 407-432)
\* and queries by (views.py:398) that models.Contract does not declare: they
\* live on the instance in memory and are no columns of the table
SigningFields == {"envelope_id", "sent_at", "completed_at", "declined_at"}

AllFields == ContractFields \cup SigningFields

\* of these, the columns of the table migration 0001 creates: it predates
\* contract_text (and owner_name and equipment)
MigrationFields == {"status", "total_value"}

\* Contract.objects.create(..., status='draft'): the row of a new contract
DraftRow ==
  [status |-> "draft", total_value |-> 0, contract_text |-> "html",
   envelope_id |-> None,
   sent_at |-> None, completed_at |-> None, declined_at |-> None]

\* models.CONTRACT_STATUS_CHOICES: the values the serializer accepts for status
StatusChoices == {"draft", "signed", "active", "expired", "terminated"}

Statuses ==
  {"draft", "sent_for_signing", "sent", "completed", "declined"} \cup StatusChoices
Terminal == {"completed", "declined"}

\* ---------------------------------------------------------------- events
\* status tokens a notification may carry; "" is an absent (or empty) token
Tokens == {"", "completed", "Declined", "sent", "delivered"}

\* str.lower() on the tokens above
Lower(tok) ==
  IF tok = "Declined" THEN "declined" ELSE tok

EventTimes == 0..MaxEventTime
EnvelopeIds == 0..MaxRuns

Events == [envelopeId : EnvelopeIds, status : Tokens, time : EventTimes]

\* the envelope ids a notification can name when n envelopes exist: none, an
\* envelope of the provider, or an id the provider has not given out
Nameable(n) == {e \in EnvelopeIds : e <= n + 1}

NoEvent == [envelopeId |-> None, status |-> "", time |-> None]

\* ------------------------------------------------------------ the inputs
\* what fetch_equipment hands back, or the list generate_contract builds of
\* it for a list of ids: None after any failure, else the decoded JSON body,
\* an object
Shapes == {"none", "dict", "list"}

\* what fetch_profile hands back: None after any failure, else the decoded
\* JSON body: an object, an object whose `address` is no object (null or a
\* string), a list whose first element is an object, an empty list, or a list
\* whose first element is null
Profiles == {"none", "dict", "bad_address", "list", "empty_list", "list_of_null"}

\* what fetch_request hands back: None after any failure, else the decoded
\* JSON body: an empty object or an object with fields
Requests == {"none", "empty", "dict"}

\* bool(request_info): None and {} are falsy
truthy(request) == request = "dict"

\* the clientId of a request body: absent (None), a falsy value ('' or 0), or
\* an identifier
ClientIds == {"none", "falsy", "id"}

\* the total_price values a request body or a request record may carry
Prices == {None, 150, -5}

\* the start_date / end_date values of a request record: none, a timestamp,
\* or a JSON value that is truthy and no string ("number")
RequestDates == {"", "2024-05-01T09:00:00", "number"}

\* the startDate / endDate values of a request body: none, or a date
BodyDates == {"", "2024-06-01"}

\* s.split('T')[0] on the values above
split_T(s) == IF s = "2024-05-01T09:00:00" THEN "2024-05-01" ELSE s

\* what model.generate_content gives: an exception, an empty text or a text
Generated == {"raise", "", "html"}

\* what generate_contract hands to GeminiHelper.create_draft_contract, and the
\* outcome of the generation service
DraftInputs ==
  {i \in [owner : Profiles, client : Profiles, equipment : Shapes,
          request : Requests, request_total : Prices,
          request_start : RequestDates, request_end : RequestDates,
          client_id : ClientIds,
          body_total : Prices, body_start : BodyDates, body_end : BodyDates,
          generated : Generated] :
     i.request # "dict"
     => (i.request_total = None /\ i.request_start = "" /\ i.request_end = "")}

\* the inputs the runs of generate_contract are drawn from: the runs carry no
\* negative price
RunInputs == {i \in DraftInputs : i.request_total >= 0 /\ i.body_total >= 0}

NoInput ==
  [owner |-> "none", client |-> "none", equipment |-> "none", request |-> "none",
   request_total |-> None, request_start |-> "", request_end |-> "",
   client_id |-> "none", body_total |-> None, body_start |-> "", body_end |-> "", generated |-> "raise"]

\* what generate_contract reads again after the draft exists
\* (profile_info_client at views.py:179, client_id at views.py:189) or that a
\* stored value is compared with (the total_price of request_info); an empty
\* list of client profiles is kept as no profile: views.py:179 can subscript
\* neither, and nothing else reads the profile after the draft
Locals(i) ==
  [client |-> IF i.client = "empty_list" THEN "none" ELSE i.client,
   request_total |-> i.request_total,
   client_id |-> i.client_id]

\* the arguments of sign_contract that its presence check reads: TRUE for a
\* truthy value
NoArgs ==
  [contract_text |-> TRUE, signer_email |-> TRUE, signer_name |-> TRUE,
   owner_name |-> TRUE, client_name |-> TRUE]

\* the two bodies generate_contract answers with
SuccessKeys == {"message", "envelope_id", "contract_id", "signing_url"}
ErrorKeys == {"error", "details"}

VARIABLES
  schema,     \* the columns of the Contract table
  contracts,  \* the stored rows, by contract id (1..Len)
  deleted,    \* the ids whose row has been deleted
  issued,     \* number of envelopes the provider has created (ids 1..issued)
  clock,      \* the value the next now() returns
  api,        \* number of writing requests the record API has served
  run,        \* per generate_contract request: pc, locals, instance, calls, results, response
  hook,       \* per docusign_webhook request: pc, event, loaded instance, response
  draft,      \* one call of GeminiHelper.create_draft_contract: inputs and result
  agg,        \* the aggregation step of one generate_contract: fetches and results
  patch       \* per update or delete request of the record API: pc, method, loaded instance

vars == <<schema, contracts, deleted, issued, clock, api, run, hook, draft, agg, patch>>

\* ------------------------------------------------------------------ store
\* Model.save(): one UPDATE that writes every declared column of the row from
\* the in-memory instance; an attribute that is not a column is not stored
Save(rows, cid, inst) ==
  [rows EXCEPT ![cid] =
     [f \in AllFields |-> IF f \in schema THEN inst[f] ELSE rows[cid][f]]]

\* Model.save() of an instance whose row is gone: the UPDATE matches no row and
\* save() falls back to an INSERT under the same id
Inserted(cid) == deleted \ {cid}

\* every statement the ORM issues for Contract names all the fields the model
\* declares: it fails (OperationalError) on a table that lacks one of them
TableInStep == ContractFields \subseteq schema

\* Contract.objects.get(envelope_id=eid): the ids of the matching rows
Matching(rows, eid) ==
  {c \in DOMAIN rows : c \notin deleted /\ rows[c].envelope_id = eid}

\* ------------------------------------------------ responses of the webhook
\* views.py:387 assigns `status` inside docusign_webhook, which makes the name
\* a local of the whole function: every `status.HTTP_*` in its body reads that
\* local (unbound, None or a str), never the rest_framework.status module
StatusIsModule == FALSE

\* the except-handler at views.py:440-445: builds the 500 response with
\* status.HTTP_500_INTERNAL_SERVER_ERROR; when that raises in turn, the
\* exception leaves the view
InternalError == IF StatusIsModule THEN "500" ELSE "raise"

\* `return Response(..., status=status.HTTP_<code>)` inside the try block
Respond(code) == IF StatusIsModule THEN code ELSE InternalError

\* ---------------------------------------------------------- draft creation
\* GeminiHelper._sanitize_profile: a non-empty list gives its first element,
\* an empty list and None an empty object, an object itself
sanitize_profile(profile) ==
  CASE profile = "list" -> "dict"
    [] profile = "list_of_null" -> "null"
    [] profile = "empty_list" -> "empty"
    [] profile = "none" -> "empty"
    [] OTHER -> profile

\* profile.get(...) and profile.get("address", {}).get(...) in the prompt:
\* raises on a profile that is no object or whose address is no object
profile_raises(profile) == sanitize_profile(profile) \notin {"dict", "empty"}

\* request_info.get('start_date').split('T') in the prompt: raises on a
\* truthy value that is no string
split_raises(i) ==
  truthy(i.request) /\ "number" \in {i.request_start, i.request_end}

\* GeminiHelper._build_prompt raises when a date of the request record cannot
\* be split, when a sanitized profile or its address has no .get, and when
\* equipment_info has no .get: a missing request is rendered as 'N/A', but
\* equipment_info.get(...) is called on whatever fetch_equipment returned
build_prompt_raises(i) ==
  \/ split_raises(i)
  \/ profile_raises(i.owner)
  \/ profile_raises(i.client)
  \/ i.equipment # "dict"

\* gemini_helper.py:126 and :135: the request record's total_price whenever
\* the request record is truthy, else the request body's; `or 0` for a falsy
\* one
total_value(i) ==
  LET t == IF truthy(i.request) THEN i.request_total ELSE i.body_total
  IN  IF t # None THEN t ELSE 0

\* gemini_helper.py:124: the day of the request record's start_date when the
\* request record is truthy and carries one, else the request body's
start_date(i) ==
  IF truthy(i.request) /\ i.request_start # ""
    THEN split_T(i.request_start) ELSE i.body_start

\* gemini_helper.py:125: the same for end_date
end_date(i) ==
  IF truthy(i.request) /\ i.request_end # ""
    THEN split_T(i.request_end) ELSE i.body_end

\* Contract.objects.create raises when a column without null=True gets None:
\* client_name (models.py:12), start_date and end_date (models.py:15-16)
create_raises(i) ==
  i.client_id = "none" \/ start_date(i) = "" \/ end_date(i) = ""

\* GeminiHelper.create_draft_contract: TRUE when it raises before the row is
\* created
draft_raises(i) ==
  build_prompt_raises(i) \/ i.generated = "raise" \/ create_raises(i)

\* the row Contract.objects.create(...) inserts
draft_row(i) ==
  [DraftRow EXCEPT !.total_value = total_value(i), !.contract_text = i.generated]

\* a create_draft_contract that calls the generation service again after a
\* failure
draft_calls_retry(i) ==
  IF build_prompt_raises(i) THEN <<>>
  ELSE IF i.generated = "raise" THEN <<"generate", "generate">>
  ELSE <<"generate">>

\* the external calls create_draft_contract makes, in order
draft_calls(i) == IF build_prompt_raises(i) THEN <<>> ELSE <<"generate">>

\* ------------------------------------------------------------ the pipeline
NewRun ==
  [pc |-> "start", cid |-> None, eid |-> None, url |-> FALSE,
   inp |-> Locals(NoInput), inst |-> DraftRow,
   args |-> NoArgs, log |-> <<>>, resp |-> "", payload |-> {}, error |-> "",
   details |-> ""]

NewHook ==
  [pc |-> "idle", ev |-> NoEvent, cid |-> None, inst |-> DraftRow, resp |-> ""]

NoDraft ==
  [pc |-> "idle", inp |-> NoInput, row |-> DraftRow, start_date |-> "",
   end_date |-> "", calls |-> <<>>]

NoAgg == [pc |-> "idle", list |-> FALSE, ids |-> <<>>, failing |-> {}, calls |-> <<>>,
          results |-> <<>>]

NoPatch == [pc |-> "idle", method |-> "", cid |-> None, inst |-> DraftRow]

\* no Contract yet, in a table that has the columns models.Contract declares
\* (the migrations in step with models.py)
Init ==
  /\ schema = ContractFields
  /\ contracts = <<>>
  /\ deleted = {}
  /\ issued = 0
  /\ clock = MaxEventTime + 1
  /\ api = 0
  /\ run = [p \in Runs |-> NewRun]
  /\ hook = [w \in Hooks |-> NewHook]
  /\ draft = NoDraft
  /\ agg = NoAgg
  /\ patch = [k \in Patches |-> NoPatch]

\* the end of a request: its locals are gone; what it did (the row it created,
\* the envelope it was given, the calls it made) and its response remain
Done(r, resp, payload, error, details) ==
  [r EXCEPT !.pc = "done", !.inp = Locals(NoInput), !.inst = DraftRow,
            !.resp = resp, !.payload = payload, !.error = error,
            !.details = details]

\* an error answered with the success status and the keys of the success body
Fail_as_success(r, error, details) == Done(r, "200", SuccessKeys, error, details)

\* the response of generate_contract: a 500 with an error body, whose details
\* are the text of the exception
Fail(r, error, details) == Done(r, "500", ErrorKeys, error, details)

\* what GeminiHelper.create_draft_contract gives on the inputs of a run: it
\* raises or inserts a row, after the calls it logs; `inp` is what the run
\* keeps of its inputs when the row exists
DraftResults ==
  {[raises |-> draft_raises(i),
    row |-> IF draft_raises(i) THEN DraftRow ELSE draft_row(i),
    inp |-> IF draft_raises(i) THEN Locals(NoInput) ELSE Locals(i),
    log |-> draft_calls(i)] : i \in RunInputs}

\* generate_contract up to GeminiHelper.create_draft_contract: the fetches
\* never raise; prompt building, generation or the insert may, and then no
\* row is created; requests are numbered in the order they arrive
create_draft_contract(p) ==
  /\ run[p].pc = "start"
  /\ \A q \in Runs : q < p => run[q].pc # "start"
  /\ \E d \in DraftResults :
       LET r == [run[p] EXCEPT !.inp = d.inp, !.log = d.log]
       IN  IF d.raises \/ ~TableInStep
             THEN /\ run' = [run EXCEPT ![p] =
                       Fail(r, "Internal server error", "exception")]
                  /\ UNCHANGED contracts
             ELSE /\ contracts' = Append(contracts, d.row)
                  /\ run' = [run EXCEPT ![p] =
                       [r EXCEPT !.pc = "drafted", !.cid = Len(contracts) + 1,
                                 !.inst = d.row]]
  /\ UNCHANGED <<schema, deleted, issued, clock, api, hook, draft, agg, patch>>

\* views.py:179: `data.get("signer_name") or profile_info_client[0].get(
\* "first_name")`: the supplied name, else the first name of the first client
\* profile ("none" when that profile has none); subscripting raises when the
\* client profile is None, a single object or an empty list, and .get when
\* the first element is null
signer_name(supplied, client, first_name) ==
  IF supplied THEN "name"
  ELSE IF client # "list" THEN "raise"
  ELSE IF first_name THEN "name" ELSE "none"

\* the values signer_name can take for a client profile: the request body
\* carries a signer_name or not, the first profile a first_name or not
SignerNames(client) ==
  {signer_name(supplied, client, first_name) :
     supplied \in BOOLEAN, first_name \in BOOLEAN}

\* the arguments generate_contract passes to sign_contract (views.py:183-190)
sign_args(inst, signer, owner_id, client_id) ==
  [contract_text |-> inst.contract_text # "",
   signer_email |-> TRUE,              \* views.py:178 falls back to a default
   signer_name |-> signer # "none",
   owner_name |-> owner_id,
   client_name |-> client_id = "id"]

\* a presence check that leaves the owner reference out
missing_fields_but_owner(args) == \E f \in DOMAIN args \ {"owner_name"} : ~args[f]

\* views.py:234-244: the presence check of sign_contract
missing_fields(args) == \E f \in DOMAIN args : ~args[f]

\* what can stop sign_contract after its presence check, before the envelope
\* exists: in html_to_pdf_from_text the template engine raises on the generated
\* text ("template_failed"), pisa.CreatePDF raises ("pdf_failed") or reports an
\* error ("render_failed"); the private key of the settings cannot be encoded
\* ("key_failed"); the token exchange or the envelope creation raises
RenderOutcomes == {"template_failed", "pdf_failed", "render_failed"}

SubmitOutcomes ==
  RenderOutcomes \cup
    {"key_failed", "auth_failed", "submission_failed", "envelope_created"}

\* str(e) of the exception that ends sign_contract in that outcome: the text
\* html_to_pdf_from_text raises with (views.py:83), else the text of the
\* exception of the library that raised
submit_details(outcome) ==
  IF outcome = "render_failed" THEN "PDF generation failed" ELSE "exception"

\* a sign_contract that exchanges the token before it renders the document
submit_calls_token_first(outcome) ==
  CASE outcome \in RenderOutcomes -> <<"token", "render">>
    [] outcome = "key_failed" -> <<>>
    [] outcome = "auth_failed" -> <<"token">>
    [] OTHER -> <<"token", "render", "envelope">>

\* the external calls sign_contract has made when it ends in that outcome
submit_calls(outcome) ==
  CASE outcome \in RenderOutcomes -> <<"render">>
    [] outcome = "key_failed" -> <<"render">>
    [] outcome = "auth_failed" -> <<"render", "token">>
    [] OTHER -> <<"render", "token", "envelope">>

\* generate_contract lines 178-190 and sign_contract up to create_envelope:
\* the provider creates the envelope and returns its id
create_envelope(p) ==
  /\ run[p].pc = "drafted"
  /\ \E signer \in SignerNames(run[p].inp.client), owner_id \in BOOLEAN :
       LET args == sign_args(run[p].inst, signer, owner_id, run[p].inp.client_id)
           called == [run[p] EXCEPT !.args = args]
       IN  IF signer = "raise"
             THEN /\ run' = [run EXCEPT ![p] =
                       Fail(run[p], "Internal server error", "exception")]
                  /\ UNCHANGED issued
           ELSE IF missing_fields(args)
             THEN /\ run' = [run EXCEPT ![p] =
                       Fail(called, "Failed to send contract", "Missing required fields")]
                  /\ UNCHANGED issued
           ELSE \E outcome \in SubmitOutcomes :
                  IF outcome # "envelope_created"
                    THEN /\ run' = [run EXCEPT ![p] =
                              Fail([called EXCEPT !.log = @ \o submit_calls(outcome)],
                                   "Failed to send contract", submit_details(outcome))]
                         /\ UNCHANGED issued
                    ELSE /\ issued' = issued + 1
                         /\ run' = [run EXCEPT ![p] =
                              [called EXCEPT !.pc = "submitted", !.eid = issued + 1,
                                             !.log = @ \o submit_calls(outcome)]]
  /\ UNCHANGED <<schema, contracts, deleted, clock, api, hook, draft, agg, patch>>

\* sign_contract lines 319-322: both attributes are set on the instance the
\* pipeline holds since creation and written by one save()
sign_contract_save(p) ==
  /\ run[p].pc = "submitted"
  /\ LET inst == [run[p].inst EXCEPT !.envelope_id = run[p].eid,
                                     !.status = "sent_for_signing"]
     IN  /\ contracts' = Save(contracts, run[p].cid, inst)
         /\ run' = [run EXCEPT ![p].pc = "saved", ![p].inst = inst]
  /\ deleted' = Inserted(run[p].cid)
  /\ UNCHANGED <<schema, issued, clock, api, hook, draft, agg, patch>>

\* what can stop fetch_signing_url
UrlOutcomes == {"auth_failed", "view_failed", "url"}

\* the external calls fetch_signing_url has made when it ends in that outcome
url_calls(outcome) ==
  IF outcome = "auth_failed" THEN <<"url_token">> ELSE <<"url_token", "url">>

\* a fetch_signing_url whose failure puts the Contract back to 'draft'
fetch_signing_url_rollback(p) ==
  /\ run[p].pc = "saved"
  /\ \E outcome \in UrlOutcomes :
       LET r == [run[p] EXCEPT !.log = @ \o url_calls(outcome),
                               !.url = (outcome = "url")]
       IN  /\ run' = [run EXCEPT ![p] =
                IF outcome = "url"
                  THEN Done(r, "200", SuccessKeys, "", "")
                  ELSE Fail(r, "Contract created but failed to generate signing URL",
                            "exception")]
           /\ contracts' =
                IF outcome = "url" THEN contracts
                ELSE Save(contracts, run[p].cid, [run[p].inst EXCEPT !.status = "draft"])
  /\ UNCHANGED <<schema, deleted, issued, clock, api, hook, draft, agg, patch>>

\* fetch_signing_url and the response of generate_contract (views.py:193-214)
fetch_signing_url(p) ==
  /\ run[p].pc = "saved"
  /\ \E outcome \in UrlOutcomes :
       LET r == [run[p] EXCEPT !.log = @ \o url_calls(outcome),
                               !.url = (outcome = "url")]
       IN  run' = [run EXCEPT ![p] =
             IF outcome = "url"
               THEN Done(r, "200", SuccessKeys, "", "")
               ELSE Fail(r, "Contract created but failed to generate signing URL",
                         "exception")]
  /\ UNCHANGED <<schema, contracts, deleted, issued, clock, api, hook, draft, agg, patch>>

\* ---------------------------------------------------------- the record API
\* ContractViewSet is a ModelViewSet over ContractSerializer: besides list and
\* retrieve it serves create, update / partial_update and destroy; status is a
\* writable serializer field validated against CONTRACT_STATUS_CHOICES

\* the status value a PATCH request carries: one of the choices, other than
\* the default
ApiStatuses == {"active"}

\* the total_value a PATCH request carries
ApiTotals == {75}

\* POST: ModelSerializer.create inserts a row from the validated fields; the
\* request carries no status and the row takes the default, 'draft'
api_create ==
  /\ api < MaxApiCalls
  /\ contracts' = IF TableInStep THEN Append(contracts, DraftRow) ELSE contracts
  /\ api' = api + 1
  /\ UNCHANGED <<schema, deleted, issued, clock, run, hook, draft, agg, patch>>

\* PUT / PATCH and DELETE, first half: UpdateModelMixin.update and
\* DestroyModelMixin.destroy load the instance with get_object(); the request
\* is the next one the record API serves. delete() uses the primary key of
\* the instance only
get_object(k, method) ==
  /\ api < MaxApiCalls
  /\ k = api + 1
  /\ \E c \in DOMAIN contracts \ deleted :
       patch' = [patch EXCEPT ![k] =
                   [pc |-> "loaded", method |-> method, cid |-> c,
                    inst |-> IF method = "DELETE" THEN DraftRow ELSE contracts[c]]]
  /\ api' = api + 1
  /\ UNCHANGED <<schema, contracts, deleted, issued, clock, run, hook, draft, agg>>

\* PUT / PATCH, second half: ModelSerializer.update sets the validated field
\* on the loaded instance and saves it, every column in one statement
perform_update(k) ==
  /\ LET c == patch[k].cid
         inst == patch[k].inst
     IN  /\ \/ \E s \in ApiStatuses \cap StatusChoices :
                 contracts' = Save(contracts, c, [inst EXCEPT !.status = s])
            \/ \E t \in ApiTotals :
                 contracts' = Save(contracts, c, [inst EXCEPT !.total_value = t])
         /\ deleted' = Inserted(c)
  /\ patch' = [patch EXCEPT ![k] = [NoPatch EXCEPT !.pc = "done"]]
  /\ UNCHANGED <<schema, issued, clock, api, run, hook, draft, agg>>

\* one update request to the record API: the load, then the save
api_update ==
  \E k \in Patches :
    IF patch[k].pc = "idle" THEN get_object(k, "PATCH")
    ELSE patch[k].pc = "loaded" /\ patch[k].method = "PATCH" /\ perform_update(k)

\* DELETE, second half: DestroyModelMixin.perform_destroy calls
\* instance.delete(), one DELETE by primary key, whatever the row holds by then
perform_destroy(k) ==
  /\ deleted' = deleted \cup {patch[k].cid}
  /\ patch' = [patch EXCEPT ![k] = [NoPatch EXCEPT !.pc = "done"]]
  /\ UNCHANGED <<schema, contracts, issued, clock, api, run, hook, draft, agg>>

\* one delete request to the record API: the load, then the delete
api_destroy ==
  \E k \in Patches :
    IF patch[k].pc = "idle" THEN get_object(k, "DELETE")
    ELSE patch[k].pc = "loaded" /\ patch[k].method = "DELETE" /\ perform_destroy(k)

\* ------------------------------------------------------------- the webhook
\* `event_time or now()`
EventTime(ev) == IF ev.time # None THEN ev.time ELSE clock

\* views.py:403-435: the attributes the handler sets on the loaded instance
\* for a recognized token; None of them for any other token
Transition(inst, ev) ==
  CASE Lower(ev.status) = "completed" ->
         [inst EXCEPT !.status = "completed", !.completed_at = EventTime(ev)]
    [] Lower(ev.status) = "declined" ->
         [inst EXCEPT !.status = "declined", !.declined_at = EventTime(ev)]
    [] Lower(ev.status) = "sent" ->
         [inst EXCEPT !.status = "sent", !.sent_at = EventTime(ev)]
    [] OTHER -> inst

Recognized(ev) == Lower(ev.status) \in {"completed", "declined", "sent"}

\* a lookup by primary key, Contract.objects.get(id=envelope_id), in the place
\* of the lookup by envelope id
Receive_by_pk(w, ev) ==
  LET found == {c \in DOMAIN contracts \ deleted : c = ev.envelopeId}
      end(resp) == [hook EXCEPT ![w].pc = "done", ![w].ev = ev, ![w].resp = resp]
  IN  /\ hook' =
           IF ev.envelopeId = None THEN end(Respond("400"))
           ELSE IF ev.status = "" THEN end(Respond("400"))
           ELSE IF found = {} THEN end(Respond("404"))
           ELSE LET c == CHOOSE c \in found : TRUE
                IN  [hook EXCEPT ![w].pc = "found", ![w].ev = ev, ![w].cid = c,
                                 ![w].inst = contracts[c]]
      /\ UNCHANGED <<schema, contracts, deleted, issued, clock, api, run, draft, agg, patch>>

\* views.py:368-401: verification (always passes), the two presence checks
\* and the lookup by envelope id
Receive(w, ev) ==
  LET found == Matching(contracts, ev.envelopeId)
      end(resp) == [hook EXCEPT ![w].pc = "done", ![w].ev = ev, ![w].resp = resp]
  IN  /\ hook' =
           IF ev.envelopeId = None THEN end(Respond("400"))
           ELSE IF ev.status = "" THEN end(Respond("400"))
           ELSE IF "envelope_id" \notin schema THEN end(InternalError)  \* FieldError
           ELSE IF found = {} THEN end(Respond("404"))                 \* DoesNotExist
           ELSE IF Cardinality(found) > 1 THEN end(InternalError)      \* MultipleObjectsReturned
           ELSE LET c == CHOOSE c \in found : TRUE
                IN  [hook EXCEPT ![w].pc = "found", ![w].ev = ev, ![w].cid = c,
                                 ![w].inst = contracts[c]]
      /\ UNCHANGED <<schema, contracts, deleted, issued, clock, api, run, draft, agg, patch>>

\* views.py:403-438: the transition on the loaded instance, its save(), and
\* the acknowledgment
Apply(w) ==
  LET ev == hook[w].ev
      inst == Transition(hook[w].inst, ev)
  IN  /\ contracts' = IF Recognized(ev) THEN Save(contracts, hook[w].cid, inst)
                                        ELSE contracts
      /\ clock' = IF Recognized(ev) /\ ev.time = None THEN clock + 1 ELSE clock
      /\ deleted' = IF Recognized(ev) THEN Inserted(hook[w].cid) ELSE deleted
      /\ hook' = [hook EXCEPT ![w].pc = "done", ![w].inst = inst,
                              ![w].resp = Respond("200")]
      /\ UNCHANGED <<schema, issued, api, run, draft, agg, patch>>

\* one request to docusign_webhook: up to the lookup, then from the lookup to
\* the response; requests are numbered in the order they arrive
docusign_webhook(w) ==
  /\ \A v \in Hooks : v < w => hook[v].pc # "idle"
  /\ IF hook[w].pc = "idle"
       THEN \E ev \in Events : ev.envelopeId \in Nameable(issued) /\ Receive(w, ev)
       ELSE hook[w].pc = "found" /\ Apply(w)

Next ==
  \/ \E p \in Runs : create_draft_contract(p)
  \/ \E p \in Runs : create_envelope(p)
  \/ \E p \in Runs : sign_contract_save(p)
  \/ \E p \in Runs : fetch_signing_url(p)
  \/ \E w \in Hooks : docusign_webhook(w)
  \/ api_create
  \/ api_update
  \/ api_destroy

\* the repository as it is: models.Contract without the signing columns
Spec == Init /\ [][Next]_vars

\* the same requests on the table that migration 0001 alone creates
InitMigration0001 ==
  /\ schema = MigrationFields
  /\ contracts = <<>>
  /\ deleted = {}
  /\ issued = 0
  /\ clock = MaxEventTime + 1
  /\ api = 0
  /\ run = [p \in Runs |-> NewRun]
  /\ hook = [w \in Hooks |-> NewHook]
  /\ draft = NoDraft
  /\ agg = NoAgg
  /\ patch = [k \in Patches |-> NoPatch]

SpecMigration0001 == InitMigration0001 /\ [][Next]_vars

\* ------------------------------------------------ the pipeline on its own
\* the requests that write Contract rows outside the webhook: generate_contract
\* and the record API
NextPipeline ==
  \/ \E p \in Runs : create_draft_contract(p)
  \/ \E p \in Runs : create_envelope(p)
  \/ \E p \in Runs : sign_contract_save(p)
  \/ \E p \in Runs : fetch_signing_url(p)
  \/ api_create
  \/ api_update
  \/ api_destroy

SpecPipeline == Init /\ [][NextPipeline]_vars

\* ------------------------------------------- draft creation on its own
\* one call of GeminiHelper.create_draft_contract on each input it can be given
InitDraft ==
  /\ schema = ContractFields
  /\ contracts = <<>>
  /\ deleted = {}
  /\ issued = 0
  /\ clock = MaxEventTime + 1
  /\ api = 0
  /\ run = [p \in Runs |-> NewRun]
  /\ hook = [w \in Hooks |-> NewHook]
  /\ draft \in {[NoDraft EXCEPT !.pc = "called", !.inp = i] : i \in DraftInputs}
  /\ agg = NoAgg
  /\ patch = [k \in Patches |-> NoPatch]

draft_contract ==
  /\ draft.pc = "called"
  /\ draft' = [draft EXCEPT
       !.pc = IF draft_raises(draft.inp) THEN "raised" ELSE "created",
       !.row = IF draft_raises(draft.inp) THEN @ ELSE draft_row(draft.inp),
       !.start_date = IF draft_raises(draft.inp) THEN @ ELSE start_date(draft.inp),
       !.end_date = IF draft_raises(draft.inp) THEN @ ELSE end_date(draft.inp),
       !.calls = draft_calls(draft.inp)]
  /\ contracts' = IF draft_raises(draft.inp)
                    THEN contracts
                    ELSE Append(contracts, draft_row(draft.inp))
  /\ UNCHANGED <<schema, deleted, issued, clock, api, run, hook, agg, patch>>

NextDraft == draft_contract

SpecDraft == InitDraft /\ [][NextDraft]_vars

\* ------------------------------------------------ aggregation on its own
\* the values of equipmentId: one identifier, or a list of identifiers
EquipmentIds == 1..MaxEquipment

EquipmentIdLists == UNION {[1..n -> EquipmentIds] : n \in 0..MaxEquipment}

\* the fetches of generate_contract, in the order of views.py:139-154: the
\* client profile, the owner profile, one fetch_equipment per identifier (or
\* the single one), the rental request
Fetches(list, ids) ==
  <<[kind |-> "client", arg |-> None], [kind |-> "owner", arg |-> None]>>
  \o [k \in 1..Len(ids) |-> [kind |-> "equipment", arg |-> ids[k]]]
  \o <<[kind |-> "request", arg |-> None]>>

\* what a fetch that succeeds returns: the record of the equipment asked for,
\* or the one profile / request record
Record(call) == IF call.kind = "equipment" THEN call.arg ELSE 1

\* fetch_profile / fetch_equipment / fetch_request: the decoded record, or None
\* after any exception
fetch(call, fails) == IF fails THEN None ELSE Record(call)

\* an aggregation that keeps only the equipment records it found
equipment_info_found_only(list, results) ==
  IF list THEN SelectSeq(SubSeq(results, 3, Len(results) - 1), LAMBDA r : r # None)
          ELSE results[3]

\* views.py:146-150: the list of the results for a list of identifiers, else
\* the one result
equipment_info(list, results) ==
  IF list THEN SubSeq(results, 3, Len(results) - 1) ELSE results[3]

\* one aggregation on each equipmentId and each set of failing fetches
InitAggregate ==
  /\ schema = ContractFields
  /\ contracts = <<>>
  /\ deleted = {}
  /\ issued = 0
  /\ clock = MaxEventTime + 1
  /\ api = 0
  /\ run = [p \in Runs |-> NewRun]
  /\ hook = [w \in Hooks |-> NewHook]
  /\ draft = NoDraft
  /\ patch = [k \in Patches |-> NoPatch]
  /\ \E list \in BOOLEAN, ids \in EquipmentIdLists :
       /\ ~list => Len(ids) = 1
       /\ \E failing \in SUBSET (1..Len(Fetches(list, ids))) :
            agg = [NoAgg EXCEPT !.pc = "fetching", !.list = list, !.ids = ids,
                                !.failing = failing]

\* the next fetch of the aggregation
fetch_next ==
  /\ agg.pc = "fetching"
  /\ LET plan == Fetches(agg.list, agg.ids)
         k == Len(agg.calls) + 1
     IN  agg' = [agg EXCEPT
           !.calls = Append(@, plan[k]),
           !.results = Append(@, fetch(plan[k], k \in agg.failing)),
           !.pc = IF k = Len(plan) THEN "done" ELSE "fetching"]
  /\ UNCHANGED <<schema, contracts, deleted, issued, clock, api, run, hook, draft, patch>>

NextAggregate == fetch_next

SpecAggregate == InitAggregate /\ [][NextAggregate]_vars

TypeOK ==
  /\ schema \subseteq AllFields
  /\ \A c \in DOMAIN contracts : contracts[c].status \in Statuses
  /\ deleted \subseteq DOMAIN contracts
  /\ issued \in 0..MaxRuns
  /\ api \in 0..MaxApiCalls
  /\ \A k \in Patches : /\ patch[k].pc \in {"idle", "loaded", "done"}
                        /\ patch[k].method \in {"", "PATCH", "DELETE"}
  /\ \A p \in Runs : run[p].payload \in {{}, SuccessKeys, ErrorKeys}
  /\ \A p \in Runs : run[p].pc \in {"start", "drafted", "submitted", "saved", "done"}
  /\ \A w \in Hooks : hook[w].pc \in {"idle", "found", "done"}

\* ------------------------------------------------------------------ claims
\* the step in which request w goes from its lookup to its response
Applies(w) == hook[w].pc = "found" /\ hook'[w].pc = "done"

\* the step in which request w is received and ends without a Contract
Rejects(w) == hook[w].pc = "idle" /\ hook'[w].pc = "done"

\* the step in which request w ends, with a response or an exception
Ends(w) == hook[w].pc # "done" /\ hook'[w].pc = "done"

\* the ids of the stored Contracts
Stored == DOMAIN contracts \ deleted

\* envelope id eid references Contract c: c is stored, and eid is the id the
\* provider returned for it to a sign_contract that has saved (views.py:313-322)
References(eid, c) ==
  /\ eid # None
  /\ c \in Stored
  /\ \E p \in Runs : /\ run[p].cid = c
                     /\ run[p].eid = eid
                     /\ run[p].pc \in {"saved", "done"}

\* C1: for the events that reference one Contract's envelope: a 'sent' event
\* does not change the status of a Contract that is 'completed' or
\* 'declined', and when the call of a 'completed' or 'declined' event ends the
\* Contract is in a terminal status.
C1_SentNeverOverturnsTerminal ==
  [][\A w \in Hooks, c \in DOMAIN contracts :
       (Ends(w) /\ References(hook'[w].ev.envelopeId, c))
       => /\ (Lower(hook'[w].ev.status) = "sent" /\ contracts[c].status \in Terminal)
             => contracts'[c].status = contracts[c].status
          /\ Lower(hook'[w].ev.status) \in Terminal
             => contracts'[c].status \in Terminal]_vars

\* C2: no step of a docusign_webhook call changes a field of a Contract whose
\* status is 'completed' or 'declined', nor (no Contract ever being in one of
\* these) of a Contract whose envelope the call's event references, whatever
\* the token.
C2_TerminalRowFrozen ==
  [][\A w \in Hooks, c \in DOMAIN contracts :
       (/\ hook'[w] # hook[w]
        /\ \/ contracts[c].status \in Terminal
           \/ References(hook'[w].ev.envelopeId, c))
       => contracts'[c] = contracts[c]]_vars

\* a 'completed' event and then a further event were delivered for the
\* envelope of a stored Contract, which is as sign_contract saved it
C2_Witness ==
  \E v, w \in Hooks, c \in DOMAIN contracts :
    /\ v < w
    /\ hook[v].pc = "done" /\ hook[w].pc = "done"
    /\ hook[v].ev.status = "completed"
    /\ hook[w].ev.status \in {"sent", "Declined"}
    /\ References(hook[v].ev.envelopeId, c)
    /\ hook[w].ev.envelopeId = hook[v].ev.envelopeId
    /\ contracts[c].status = "sent_for_signing"

\* C3: the call that is delivered an event an earlier call was delivered
\* already (same envelope id, same token, same timestamp) changes no Contract:
\* the stored state after N deliveries is the state after one.
C3_ReplayIsIdempotent ==
  [][\A w, v \in Hooks :
       (/\ v # w
        /\ hook[v].pc = "done"
        /\ hook'[w] # hook[w]
        /\ hook'[w].ev = hook[v].ev
        /\ hook[v].ev.envelopeId # None
        /\ hook[v].ev.status # "")
       => contracts' = contracts /\ deleted' = deleted]_vars

\* the same 'completed' event, without timestamp, was delivered twice for the
\* envelope of a stored Contract
C3_Witness ==
  \E v, w \in Hooks, c \in DOMAIN contracts :
    /\ v # w
    /\ hook[v].pc = "done" /\ hook[w].pc = "done"
    /\ hook[v].ev = hook[w].ev
    /\ hook[v].ev.status = "completed"
    /\ hook[v].ev.time = None
    /\ References(hook[v].ev.envelopeId, c)

\* C4: a call whose event carries an envelope id and a status token, the
\* envelope id being that of a stored Contract, ends with the success
\* acknowledgment (HTTP 200), whatever the token.
C4_ResolvedEventAcknowledged ==
  [][\A w \in Hooks :
       (/\ Ends(w)
        /\ hook'[w].ev.status # ""
        /\ \E c \in DOMAIN contracts : References(hook'[w].ev.envelopeId, c))
       => hook'[w].resp = "200"]_vars

\* C5: an event without envelope id or without status token is answered with
\* HTTP 400, and no Contract is looked up or changed by that request.
C5_MalformedRejected ==
  [][\A w \in Hooks :
       (/\ Rejects(w)
        /\ (hook'[w].ev.envelopeId = None \/ hook'[w].ev.status = ""))
       => /\ hook'[w].resp = "400"
          /\ hook'[w].cid = None
          /\ contracts' = contracts]_vars

\* C6: an event whose envelope id matches no Contract (also one that arrives
\* before sign_contract has saved that id) is answered with the not-found
\* signal, and no Contract is changed.
C6_UnknownEnvelopeNotFound ==
  [][\A w \in Hooks :
       (/\ Rejects(w)
        /\ hook'[w].ev.envelopeId # None
        /\ hook'[w].ev.status # ""
        /\ Matching(contracts, hook'[w].ev.envelopeId) = {})
       => /\ hook'[w].resp = "404"
          /\ contracts' = contracts]_vars

\* C7: the call of an event for the envelope of a stored Contract whose token
\* is none of completed, declined, sent (case-insensitively) changes nothing on
\* any Contract and ends with the success acknowledgment.
C7_UnknownTokenIgnored ==
  [][\A w \in Hooks :
       (/\ Ends(w)
        /\ hook'[w].ev.status # ""
        /\ ~Recognized(hook'[w].ev)
        /\ \E c \in DOMAIN contracts : References(hook'[w].ev.envelopeId, c))
       => /\ contracts' = contracts
          /\ hook'[w].resp = "200"]_vars

\* C8: a Contract's envelope_id is written by sign_contract at the successful
\* submission, and once set no later step changes or clears it.
C8_EnvelopeIdWrittenOnce ==
  [][/\ \A p \in Runs :
          (run[p].pc = "submitted" /\ run'[p].pc = "saved")
          => contracts'[run[p].cid].envelope_id = run[p].eid
     /\ \A c \in DOMAIN contracts :
          contracts[c].envelope_id # None
          => contracts'[c].envelope_id = contracts[c].envelope_id]_vars

\* C9: no stored Contract has an envelope_id while its status is 'draft', nor
\* status 'sent_for_signing' without an envelope_id.
C9_EnvelopeIdAndStatusTogether ==
  \A c \in DOMAIN contracts :
    /\ ~(contracts[c].envelope_id # None /\ contracts[c].status = "draft")
    /\ ~(contracts[c].status = "sent_for_signing" /\ contracts[c].envelope_id = None)

\* the timestamp column a recognized event governs
Governed(ev) ==
  CASE Lower(ev.status) = "completed" -> "completed_at"
    [] Lower(ev.status) = "declined" -> "declined_at"
    [] Lower(ev.status) = "sent" -> "sent_at"

\* the row after request w, run alone on `row`, with the timestamp w used
SerialStep(row, w) ==
  IF Recognized(hook[w].ev)
    THEN [row EXCEPT !.status = Lower(hook[w].ev.status),
                     ![Governed(hook[w].ev)] = hook[w].inst[Governed(hook[w].ev)]]
    ELSE row

\* the rows the requests in H can leave when run one after the other
RECURSIVE SerialRows(_, _)
SerialRows(row, H) ==
  IF H = {} THEN {row}
  ELSE UNION {SerialRows(SerialStep(row, w), H \ {w}) : w \in H}

\* C10: the updates of one Contract by docusign_webhook calls that run
\* concurrently with each other and with the submission flow are serialized:
\* once sign_contract has saved the Contract and no call is between its lookup
\* and its save on it, the stored row is one that the calls that found the
\* Contract yield, run one after the other in some order, from the row
\* sign_contract saved (the record API not having written).
C10_UpdatesSerializable ==
  \A c \in DOMAIN contracts :
    (/\ api = 0
     /\ \E p \in Runs : /\ run[p].cid = c
                        /\ run[p].eid # None
                        /\ run[p].pc \in {"saved", "done"}
     /\ \A w \in Hooks : ~(hook[w].pc = "found" /\ hook[w].cid = c))
    => contracts[c] \in
         SerialRows([contracts[c] EXCEPT !.status = "sent_for_signing",
                                         !.sent_at = None, !.completed_at = None,
                                         !.declined_at = None],
                    {w \in Hooks : hook[w].pc = "done" /\ hook[w].cid = c})

\* a 'sent' and a 'completed' event for the envelope of a run were both
\* delivered while the run's request was still going on after sign_contract's
\* save
C10_Witness ==
  \E p \in Runs, v, w \in Hooks :
    /\ run[p].pc = "saved"
    /\ hook[v].pc = "done" /\ hook[w].pc = "done"
    /\ hook[v].ev.status = "sent" /\ hook[w].ev.status = "completed"
    /\ hook[v].ev.envelopeId = run[p].eid
    /\ hook[w].ev.envelopeId = run[p].eid
    /\ api = 0
    /\ contracts[run[p].cid].status = "sent_for_signing"

\* the edges of the status graph
StatusEdges ==
  {<<"draft", "sent_for_signing">>, <<"sent_for_signing", "sent">>,
   <<"sent_for_signing", "completed">>, <<"sent_for_signing", "declined">>,
   <<"sent", "completed">>, <<"sent", "declined">>}

\* the step in which run p saves the row after a successful submission
Submits(p) == run[p].pc = "submitted" /\ run'[p].pc = "saved"

\* C11: every status change of a Contract follows the graph draft ->
\* sent_for_signing -> {sent, completed, declined}: never back to 'draft', to
\* 'sent_for_signing' only by the save of a successful submission in
\* sign_contract, and to sent / completed / declined only by a webhook event
\* that carries the Contract's envelope_id.
C11_StatusFollowsGraph ==
  [][\A c \in DOMAIN contracts :
       contracts'[c].status # contracts[c].status
       => /\ <<contracts[c].status, contracts'[c].status>> \in StatusEdges
          /\ contracts'[c].status = "sent_for_signing"
             => \E p \in Runs : Submits(p) /\ run[p].cid = c
          /\ contracts'[c].status \in {"sent", "completed", "declined"}
             => \E w \in Hooks : /\ Applies(w)
                                 /\ hook[w].cid = c
                                 /\ hook[w].ev.envelopeId = contracts[c].envelope_id]_vars

\* the step in which run p, its envelope saved, fails to get a signing URL
UrlFails(p) == run[p].pc = "saved" /\ run'[p].pc = "done" /\ run'[p].resp # "200"

\* the step in which sign_contract of run p returns an error
SubmissionFails(p) ==
  run[p].pc = "drafted" /\ run'[p].pc = "done" /\ run'[p].error = "Failed to send contract"

\* C12: when the submission succeeded and fetch_signing_url fails, the
\* Contract is at 'sent_for_signing' with the envelope id the provider
\* returned; when sign_contract itself fails, the Contract has no envelope_id
\* (the record API not having written).
C12_UrlFailureKeepsEnvelope ==
  [][api = 0 =>
       \A p \in Runs :
         /\ UrlFails(p)
            => /\ contracts'[run[p].cid].status = "sent_for_signing"
               /\ run[p].eid # None
               /\ contracts'[run[p].cid].envelope_id = run[p].eid
         /\ SubmissionFails(p)
            => contracts'[run[p].cid].envelope_id = None]_vars

\* C13: the response of a run whose submission succeeded and whose signing
\* URL could not be fetched is an error other than the one of a failed
\* submission, and carries the envelope id.
C13_UrlFailureCarriesEnvelopeId ==
  \A p \in Runs :
    (run[p].pc = "done" /\ run[p].eid # None /\ run[p].resp # "200")
    => /\ run[p].error \notin {"", "Failed to send contract"}
       /\ "envelope_id" \in run[p].payload

\* the step in which run p calls sign_contract and sign_contract returns
CallsSignContract(p) ==
  /\ run[p].pc = "drafted"
  /\ run'[p].pc # "drafted"
  /\ run'[p].error # "Internal server error"

\* the calls to the signature provider, and the rendering before them
ProviderCalls == {"token", "envelope", "url_token", "url"}

\* C14: when sign_contract is called with one of its required inputs
\* (contract text, signer email, signer name, owner reference, client
\* reference) missing, it returns the missing-fields error without rendering and
\* without any call to the signature provider, and no Contract is changed.
C14_MissingFieldsBeforeProvider ==
  [][\A p \in Runs :
       (CallsSignContract(p) /\ \E f \in DOMAIN NoArgs : ~run'[p].args[f])
       => /\ run'[p].pc = "done"
          /\ run'[p].resp = "500"
          /\ run'[p].error = "Failed to send contract"
          /\ run'[p].details = "Missing required fields"
          /\ run'[p].log = run[p].log
          /\ issued' = issued
          /\ contracts' = contracts
          /\ deleted' = deleted]_vars

\* a run that was answered the missing-fields error for an absent owner
\* reference
C14_Witness ==
  \E p \in Runs :
    /\ run[p].pc = "done"
    /\ ~run[p].args.owner_name
    /\ run[p].details = "Missing required fields"
    /\ run[p].cid # None
    /\ contracts[run[p].cid].status = "draft"

\* the step in which sign_contract of run p fails in html_to_pdf_from_text,
\* or between it and the first call to the provider (the last call the run
\* made is the rendering)
RenderFails(p) ==
  /\ run[p].pc = "drafted"
  /\ run'[p].pc = "done"
  /\ run'[p].log # <<>>
  /\ run'[p].log[Len(run'[p].log)] = "render"

\* the calls in a log
CallsIn(log) == {log[k] : k \in DOMAIN log}

\* C15: when html_to_pdf_from_text fails, the run ends with an error and has
\* made no token exchange, no envelope creation and no signing-URL request; the
\* step changes no Contract, and the run's Contract is 'draft' with no
\* envelope_id (the record API not having written).
C15_RenderFailureStopsRun ==
  [][\A p \in Runs :
       RenderFails(p)
       => /\ run'[p].pc = "done"
          /\ run'[p].resp = "500"
          /\ ProviderCalls \cap CallsIn(run'[p].log) = {}
          /\ issued' = issued
          /\ contracts' = contracts
          /\ api = 0 => /\ contracts'[run[p].cid].status = "draft"
                        /\ contracts'[run[p].cid].envelope_id = None]_vars

\* a run that ended in a rendering failure, its Contract still a draft
C15_Witness ==
  \E p \in Runs :
    /\ run[p].pc = "done"
    /\ run[p].details = "PDF generation failed"
    /\ run[p].log = <<"generate", "render">>
    /\ contracts[run[p].cid].status = "draft"

\* C16: for every combination of present (a single record) and absent (None)
\* owner profile, client profile, equipment record and request record with at
\* least one of them absent, create_draft_contract does not raise when the
\* generation service succeeds (the request body carrying both dates).
C16_AbsentInputsTolerated ==
  LET i == draft.inp
  IN  (/\ draft.pc # "called"
       /\ {i.owner, i.client, i.equipment} \subseteq {"none", "dict"}
       /\ "none" \in {i.owner, i.client, i.equipment, i.request}
       /\ i.body_start # "" /\ i.body_end # ""
       /\ i.client_id # "none"
       /\ "number" \notin {i.request_start, i.request_end}
       /\ i.generated # "raise")
      => draft.pc = "created"

\* C17: a run whose client profile and request record are single records,
\* whose request carries total_price 150 and whose generation, rendering and
\* submission succeed with envelope id E ends with its Contract at
\* 'sent_for_signing', with envelope_id E and total_value 150 (the record API
\* not having written; a draft exists only for an equipment record that is a
\* single record, and no step reads the owner profile after the prompt).
C17_ScenarioEndsSentForSigning ==
  [][api = 0 =>
       \A p \in Runs :
         (/\ run[p].pc = "saved"
          /\ run'[p].pc = "done"
          /\ run[p].inp.client = "dict"
          /\ run[p].inp.request_total = 150)
         => /\ contracts'[run[p].cid].status = "sent_for_signing"
            /\ contracts'[run[p].cid].total_value = 150
            /\ contracts'[run[p].cid].envelope_id = run[p].eid]_vars

\* C18: the record API only reads: a step that writes the Contract table is a
\* step of generate_contract or of docusign_webhook; no step removes a
\* Contract, and a Contract is added only by the draft creation of
\* generate_contract.
C18_RecordApiReadOnly ==
  [][/\ (contracts' # contracts \/ deleted' # deleted)
        => (run' # run \/ hook' # hook)
     /\ Stored \subseteq (DOMAIN contracts' \ deleted')
     /\ Len(contracts') > Len(contracts)
        => \E p \in Runs : run[p].pc = "start" /\ run'[p].pc = "drafted"]_vars

\* every envelope id a run holds, and every stored envelope_id, is an id the
\* provider returned from an envelope creation
EnvelopeIdsIssued ==
  /\ \A p \in Runs : run[p].eid # None => run[p].eid \in 1..issued
  /\ \A c \in DOMAIN contracts :
       contracts[c].envelope_id # None
       => /\ contracts[c].envelope_id \in 1..issued
          /\ \E p \in Runs : run[p].cid = c /\ run[p].eid = contracts[c].envelope_id

\* a run that ended before its envelope existed left its Contract without
\* envelope_id, and a 'draft' unless the record API wrote
FailedEarlyLeavesDraft ==
  \A p \in Runs :
    (run[p].pc = "done" /\ run[p].cid # None /\ run[p].eid = None)
    => /\ contracts[run[p].cid].envelope_id = None
       /\ api = 0 => contracts[run[p].cid].status = "draft"

\* C19: the step in which a run fails (in generation, rendering, token
\* exchange, envelope submission or signing-URL retrieval) changes no Contract:
\* nothing is rolled back; an envelope id, held by a run or stored, is always
\* an id the provider returned from a successful envelope creation; and a run
\* that fails before its envelope exists leaves its Contract 'draft' with no
\* envelope_id.
C19_NoRollbackNoPhantomEnvelope ==
  [][/\ \A p \in Runs :
          (run[p].pc # "done" /\ run'[p].pc = "done" /\ run'[p].resp # "200")
          => (contracts' = contracts /\ deleted' = deleted)
     /\ EnvelopeIdsIssued'
     /\ FailedEarlyLeavesDraft']_vars

\* a run whose signing-URL retrieval failed after its envelope was created,
\* its Contract still at 'sent_for_signing'
C19_Witness ==
  \E p \in Runs :
    /\ run[p].pc = "done"
    /\ run[p].resp = "500"
    /\ run[p].eid \in 1..issued
    /\ api = 0
    /\ contracts[run[p].cid].status = "sent_for_signing"

\* C20: a run of generate_contract has no answer until it ends, and then
\* exactly one of two: the success body with message, envelope_id, contract_id
\* and signing_url, or an error body; the success body is returned only when
\* the envelope was created and the signing URL obtained.
C20_OneCompleteAnswer ==
  \A p \in Runs :
    IF run[p].pc # "done"
      THEN run[p].resp = "" /\ run[p].payload = {}
      ELSE \/ /\ run[p].resp = "200"
              /\ run[p].payload = {"message", "envelope_id", "contract_id", "signing_url"}
              /\ run[p].error = ""
              /\ run[p].cid # None
              /\ run[p].eid # None
              /\ run[p].url
           \/ /\ run[p].resp = "500"
              /\ run[p].payload = {"error", "details"}
              /\ run[p].error # ""
              /\ ~(run[p].eid # None /\ run[p].url)

\* a run answered with the success body, and its envelope exists
C20_Witness ==
  \E p \in Runs :
    /\ run[p].pc = "done"
    /\ run[p].resp = "200"
    /\ run[p].payload = SuccessKeys
    /\ run[p].eid \in 1..issued
    /\ run[p].url

\* the number of calls of the generation service in a log
RECURSIVE Generations(_)
Generations(log) ==
  IF log = <<>> THEN 0
  ELSE (IF Head(log) = "generate" THEN 1 ELSE 0) + Generations(Tail(log))

\* the step in which run p gets its Contract
CreatesDraft(p) == run[p].cid = None /\ run'[p].cid # None

\* the step in which run p ends in create_draft_contract with the generation
\* service called: the service failed, or the INSERT after it did
GenerationFails(p) ==
  run[p].pc = "start" /\ run'[p].pc = "done" /\ "generate" \in CallsIn(run'[p].log)

\* C21: a run's Contract is created, in status 'draft', when the generation
\* service has been called once and has returned and nothing has been rendered
\* or sent to the signature provider; when the generation fails, no Contract
\* is created, the generation service has been called exactly once, and the
\* run makes no renderer or provider call.
C21_DraftBetweenGenerationAndSubmission ==
  [][\A p \in Runs :
       /\ CreatesDraft(p)
          => /\ run'[p].log = <<"generate">>
             /\ contracts' = Append(contracts, contracts'[run'[p].cid])
             /\ contracts'[run'[p].cid].status = "draft"
       /\ GenerationFails(p)
          => /\ contracts' = contracts
             /\ run'[p].cid = None
             /\ run'[p].resp = "500"
       /\ Generations(run'[p].log) <= 1
       /\ run'[p].cid = None
          => ({"render"} \cup ProviderCalls) \cap CallsIn(run'[p].log) = {}]_vars

\* a run that ended in a failed generation, without a Contract
C21_Witness ==
  \E p \in Runs :
    /\ run[p].pc = "done"
    /\ run[p].log = <<"generate">>
    /\ run[p].cid = None
    /\ run[p].resp = "500"

\* the positions of the calls of one kind in the aggregation
CallsOf(kind) == {k \in DOMAIN agg.calls : agg.calls[k].kind = kind}

\* C22: in the aggregation of generate_contract each fetch (client profile,
\* owner profile, each equipment identifier, rental request) is attempted
\* exactly once whatever fetch fails; a failing fetch gives None for its record
\* and a succeeding one its record; and for a list of identifiers the result has
\* one entry per identifier, in input order, None where the fetch failed.
C22_EachFetchOnceInOrder ==
  agg.pc = "done"
  => LET n == Len(agg.ids)
         e == equipment_info(agg.list, agg.results)
     IN  /\ Cardinality(CallsOf("client")) = 1
         /\ Cardinality(CallsOf("owner")) = 1
         /\ Cardinality(CallsOf("request")) = 1
         /\ Cardinality(CallsOf("equipment")) = n
         /\ \A k \in 1..n : \E c \in CallsOf("equipment") :
              /\ agg.calls[c].arg = agg.ids[k]
              /\ Cardinality({d \in CallsOf("equipment") : d < c}) = k - 1
         /\ Len(agg.results) = Len(agg.calls)
         /\ \A k \in DOMAIN agg.calls :
              agg.results[k] = IF k \in agg.failing THEN None ELSE Record(agg.calls[k])
         /\ agg.list
            => /\ Len(e) = n
               /\ \A k \in 1..n :
                    \/ e[k] = agg.ids[k]
                    \/ e[k] = None /\ \E c \in CallsOf("equipment") \cap agg.failing :
                                          Cardinality({d \in CallsOf("equipment") : d < c}) = k - 1
         /\ ~agg.list => e \in {None, agg.ids[1]}

\* an aggregation over a list of two identifiers whose first equipment fetch
\* failed and whose second succeeded
C22_Witness ==
  /\ agg.pc = "done"
  /\ agg.list
  /\ Len(agg.ids) = 2
  /\ equipment_info(agg.list, agg.results) = <<None, agg.ids[2]>>
  /\ \E k \in agg.failing : agg.calls[k].kind = "client"
  /\ agg.results[Len(agg.results)] # None

\* the value a field takes when the request record's value has precedence:
\* the request record's when it supplies one, else the request body's
Preferred(i, requested, absent, supplied) ==
  IF i.request # "none" /\ requested # absent THEN requested ELSE supplied

\* C23: a draft created by create_draft_contract carries, for start date, end
\* date and total independently, the request record's value when the record
\* supplies that field and otherwise the request body's value (an absent
\* total being stored as 0).
C23_RequestValuesTakePrecedence ==
  draft.pc = "created"
  => LET i == draft.inp
     IN  /\ draft.start_date = Preferred(i, split_T(i.request_start), "", i.body_start)
         /\ draft.end_date = Preferred(i, split_T(i.request_end), "", i.body_end)
         /\ draft.row.total_value = Preferred(i, i.request_total, None, i.body_total)

\* C24: every Contract created by create_draft_contract has a total_value of
\* at least 0, whatever totals the request body and the request record carry.
C24_TotalValueNonNegative ==
  draft.pc = "created" => draft.row.total_value >= 0

\* the timestamp fields of a Contract
Timestamps == {"sent_at", "completed_at", "declined_at"}

\* C25: when the call of a recognized event for the envelope of a stored
\* Contract ends, the timestamp field the event governs is the event's
\* timestamp (the processing time when the event has none), and the other two
\* timestamp fields of the Contract have the values they had.
C25_OnlyGovernedTimestampWritten ==
  [][\A w \in Hooks, c \in DOMAIN contracts :
       (/\ Ends(w)
        /\ Recognized(hook'[w].ev)
        /\ References(hook'[w].ev.envelopeId, c))
       => LET ev == hook'[w].ev
          IN  /\ contracts'[c][Governed(ev)] = EventTime(ev)
              /\ \A f \in Timestamps \ {Governed(ev)} :
                   contracts'[c][f] = contracts[c][f]]_vars

\* the fields of a Contract a webhook call is to leave alone
Framed == AllFields \ ({"status"} \cup Timestamps)

\* C26: a step of docusign_webhook adds and removes no Contract and changes no
\* stored Contract other than the one whose envelope the call's event
\* references; on that one, envelope_id, total_value and contract_text keep
\* the values they had.
C26_WebhookFrame ==
  [][hook' # hook
     => /\ DOMAIN contracts' = DOMAIN contracts
        /\ deleted' = deleted
        /\ \A c \in Stored :
             IF \E w \in Hooks : /\ hook'[w] # hook[w]
                                 /\ References(hook'[w].ev.envelopeId, c)
               THEN \A f \in Framed : contracts'[c][f] = contracts[c][f]
               ELSE contracts'[c] = contracts[c]]_vars

\* a recognized event was delivered for the envelope of a stored Contract
\* whose total_value the record API had set
C26_Witness ==
  \E w \in Hooks, c \in DOMAIN contracts :
    /\ hook[w].pc = "done"
    /\ Recognized(hook[w].ev)
    /\ References(hook[w].ev.envelopeId, c)
    /\ contracts[c].total_value \in ApiTotals

====
